---- MODULE Spec2Model ----
(***************************************************************************)
(* Giveaway and tempban reconciliation of mainv2.py.                       *)
(*                                                                         *)
(* Every handler is a coroutine on one event loop: it runs without         *)
(* interruption from one await to the next, so each action below is the    *)
(* code between two suspension points.                                     *)
(***************************************************************************)
EXTENDS Integers, Sequences, FiniteSets, TLC

\* ---------------------------------------------------------------- bounds
MaxGuild == 2      \* guild ids 1..MaxGuild
MaxId == 2         \* message ids 1..MaxId (records loaded and created)
MaxTime == 1       \* the clock runs 0..MaxTime
MaxUser == 2       \* user ids 1..MaxUser
MaxWinners == 2    \* winner_count arguments 0..MaxWinners

Guilds == 1..MaxGuild
Ids == 1..MaxId
Times == 0..MaxTime
Users == 1..MaxUser

VARIABLES
    world,           \* the faults the platform and the file system produce
    now,             \* datetime.now(timezone.utc)
    guilds,          \* bot.guilds
    giveaways_data,  \* the module-level dict: guild -> set of keys
    info,            \* the giveaway_info objects, by message id
    disk,            \* giveaways.json
    views,           \* the GiveawayView attached to each posted message
    sweep,           \* the check_giveaways task
    ender,           \* a giveaway_end command in flight
    creator,         \* a giveaway command in flight
    sent,            \* how each completion ended, by message id
    reply,           \* the response of the step just taken, if it gave one
    bans,            \* the ban list of each guild: user -> reason
    unbanner,        \* the check_temp_bans task
    backup_folder,   \* the files of BACKUP_FOLDER, by the stamp in their name
    restarts         \* how many times the process has started again

vars == <<world, now, guilds, giveaways_data, info, disk, views, sweep,
          ender, creator, sent, reply, bans, unbanner, backup_folder,
          restarts>>

\* the giveaway handlers touch neither the ban lists nor check_temp_bans
tempbans == <<bans, unbanner>>

\* check_temp_bans and the tempban command touch nothing of the giveaways
giveaways == <<guilds, giveaways_data, info, disk, views, sweep, ender,
               creator, sent>>

\* ------------------------------------------------------------ conversions
\* str(message.id): the key of a record in giveaways_data[guild]
Str(m) == <<m>>

\* a view that carries the key the record is stored under
MessageKey(g, c, i) == <<i>>

\* f"{guild.id}-{channel.id}-{interaction.id}": the id a GiveawayView holds
ViewId(g, c, i) == <<g, c, i>>

\* datetime.isoformat() of an aware UTC datetime
isoformat(t) == [iso |-> TRUE, aware |-> TRUE, ts |-> t]

\* Python's None, which json.load returns for a JSON null
None == [none |-> TRUE]

\* datetime.fromisoformat(s): TypeError unless s is a str, ValueError unless
\* s is ISO-8601
fromisoformat(s) ==
    IF s = None THEN [err |-> "TypeError", aware |-> FALSE, ts |-> 0]
    ELSE IF s.iso THEN [err |-> "none", aware |-> s.aware, ts |-> s.ts]
    ELSE [err |-> "ValueError", aware |-> FALSE, ts |-> 0]

\* now >= dt for an aware now: TypeError when dt is naive
CompareGE(ct, dt) ==
    IF dt.aware THEN [err |-> "none", ge |-> ct >= dt.ts]
    ELSE [err |-> "TypeError", ge |-> FALSE]

Min(a, b) == IF a <= b THEN a ELSE b

RECURSIVE SortedSeq(_)
SortedSeq(S) ==
    IF S = {} THEN <<>>
    ELSE LET x == CHOOSE y \in S : \A z \in S : y <= z
         IN <<x>> \o SortedSeq(S \ {x})

\* ------------------------------------------------------------ persistence
\* what json.dump writes for the registry
Doc(reg, inf) == [g \in DOMAIN reg |-> [k \in reg[g] |-> inf[k[1]]]]

NoDoc == <<>>

\* ------------------------------------------------------------------- json
\* the JSON text of a value, as json.dump writes it for each Python type:
\* an int is a number, a str a string, a list an array in the list's order,
\* a dict an object whose members are named by the dict's str keys
JsonNumber(n) == [number |-> n]

JsonString(str) == [string |-> str]

JsonNull == [null |-> TRUE]

\* an array written back to front, which json.dump does not do
JsonReversed(list) ==
    [array |-> [i \in 1..Len(list) |-> JsonNumber(list[Len(list) + 1 - i])]]

\* a list of ints
JsonArray(list) == [array |-> [i \in 1..Len(list) |-> JsonNumber(list[i])]]

\* the dict of lines 1461-1469, or one read from a file that lacks keys
JsonRecord(giveaway_info) ==
    [object |->
        [k \in DOMAIN giveaway_info |->
            CASE k = "entries" -> JsonArray(giveaway_info[k])
              [] k = "prize" -> JsonString(giveaway_info[k])
              [] k = "end_time" ->
                    IF giveaway_info[k] = None THEN JsonNull
                    ELSE JsonString(giveaway_info[k])
              [] OTHER -> JsonNumber(giveaway_info[k])]]

\* json.dump(giveaways_data): guild -> message id -> giveaway_info
dump(data) ==
    [object |->
        [g \in DOMAIN data |->
            [object |-> [k \in DOMAIN data[g] |-> JsonRecord(data[g][k])]]]]

\* json.load: the Python value of a JSON text, by the JSON type alone
RECURSIVE load(_)
load(text) ==
    IF "number" \in DOMAIN text THEN text.number
    ELSE IF "string" \in DOMAIN text THEN text.string
    ELSE IF "null" \in DOMAIN text THEN None
    ELSE IF "array" \in DOMAIN text
    THEN [i \in DOMAIN text.array |-> load(text.array[i])]
    ELSE [k \in DOMAIN text.object |-> load(text.object[k])]

\* outcomes of open(filename, "w") followed by json.dump
WriteOutcomes ==
    IF "disk" \in world THEN {"ok", "open fails", "dump fails"} ELSE {"ok"}

\* save_data: the exception is printed and swallowed; open(..., "w") has
\* truncated the file when json.dump fails
save_data(old, data, w) ==
    CASE w = "ok" -> [readable |-> TRUE, doc |-> dump(data)]
      [] w = "open fails" -> old
      [] OTHER -> [readable |-> FALSE, doc |-> NoDoc]

\* load_data: the default {} when the file does not decode
load_data(file) == IF file.readable THEN load(file.doc) ELSE NoDoc

\* ------------------------------------------------------ end_giveaway_logic
\* outcomes of a call to the platform (fetch, edit, send)
Outcomes ==
    IF "http" \in world THEN {"ok", "NotFound", "Forbidden"} ELSE {"ok"}

\* a handler that names discord.NotFound alone
CaughtNotFound(e) == e = "NotFound"

\* except (discord.NotFound, discord.HTTPException)
Caught(e) == e \in {"NotFound", "Forbidden", "HTTPException"}

NoFrame == [guild |-> 0, m |-> 0, pc |-> "none", kind |-> "none", pos |-> <<>>]

\* the fields are read and the first fetch is awaited
EglBegin(g, m) ==
    [guild |-> g, m |-> m, pc |-> "fetch", kind |-> "none", pos |-> <<>>]

\* k positions of the population drawn with replacement
Repeats(n, k) == [1..k -> 1..n]

\* random.sample(population, k): k distinct positions of the population
Samples(n, k) ==
    {s \in [1..k -> 1..n] : \A i \in 1..k : \A j \in 1..k : i # j => s[i] # s[j]}

\* the positions random.sample(entries, min(winner_count, len(entries))) may return
WinnerPositions(entries, winner_count) ==
    Samples(Len(entries), Min(winner_count, Len(entries)))

\* a completion that takes the winners branch whatever the entries
BranchWinners(entries) == "winners"

\* if len(entries) == 0: ... else: ...
Branch(entries) == IF Len(entries) = 0 THEN "no entries" ELSE "winners"

\* what the frame may draw when the fetch returns
Choices(inf, f) ==
    IF f.pc = "fetch" /\ Len(inf[f.m].entries) > 0
    THEN WinnerPositions(inf[f.m].entries, inf[f.m].winner_count)
    ELSE {<<>>}

\* the frame resumed with outcome r of the awaited call: what it does up to
\* its next await or its return, and what it leaves in the channel
\* ("winners", "no entries") or on the console ("failed", line 267)
EglResume(inf, f, r, s) ==
    IF r # "ok"
    THEN [f |-> f, returned |-> Caught(r), raised |-> ~Caught(r),
          remove |-> Caught(r), outcome |-> IF Caught(r) THEN "failed" ELSE "none"]
    ELSE CASE f.pc = "fetch" ->
                [f |-> [f EXCEPT !.pc = "edit",
                                 !.kind = Branch(inf[f.m].entries),
                                 !.pos = s],
                 returned |-> FALSE, raised |-> FALSE, remove |-> FALSE,
                 outcome |-> "none"]
           [] f.pc = "edit" ->
                [f |-> [f EXCEPT !.pc = "send"],
                 returned |-> FALSE, raised |-> FALSE, remove |-> FALSE,
                 outcome |-> "none"]
           [] OTHER ->
                [f |-> f, returned |-> TRUE, raised |-> FALSE, remove |-> TRUE,
                 outcome |-> f.kind]

\* if str(guild.id) in giveaways_data and str(message_id) in ...[str(guild.id)]
Stored(reg, g, m) == g \in DOMAIN reg /\ Str(m) \in reg[g]

\* del giveaways_data[str(guild.id)][str(message_id)]
Delete(reg, g, m) ==
    IF Stored(reg, g, m) THEN [reg EXCEPT ![g] = @ \ {Str(m)}] ELSE reg

\* the winners the announcement names
Winners(inf, f) == [i \in 1..Len(f.pos) |-> inf[f.m].entries[f.pos[i]]]

\* the registry, the file and the channel after a frame resumed with res
RegAfter(res) ==
    IF res.remove THEN Delete(giveaways_data, res.f.guild, res.f.m)
    ELSE giveaways_data

\* a completion that removes the record and does not save
DiskKept(res, w) == disk

DiskAfter(res, w) ==
    IF res.remove /\ Stored(giveaways_data, res.f.guild, res.f.m)
    THEN save_data(disk, Doc(RegAfter(res), info), w)
    ELSE disk

SentAfter(res) ==
    IF res.outcome # "none" THEN [sent EXCEPT ![res.f.m] = Append(@, res.outcome)]
    ELSE sent

NoReply == [guild |-> 0, op |-> "none", key |-> <<>>, user |-> 0, res |-> "none"]

Response(op, res) == [guild |-> 0, op |-> op, key |-> <<>>, user |-> 0, res |-> res]

\* --------------------------------------------------------- check_giveaways
\* one pass of the loop body at lines 308-315 over one stored record
Verdict(ct, rec) ==
    IF "end_time" \notin DOMAIN rec THEN "expired"
    ELSE LET p == fromisoformat(rec.end_time)
         IN IF p.err = "ValueError" THEN "expired"
            ELSE IF p.err # "none" THEN "raise"
            ELSE LET c == CompareGE(ct, p)
                 IN IF c.err # "none" THEN "raise"
                    ELSE IF c.ge THEN "expired" ELSE "active"

\* expired_giveaways of one guild, in the dict's insertion order
expired_giveaways(g, ct, reg, inf) ==
    LET ids == SortedSeq({k[1] : k \in reg[g]})
        IsExpired(m) == Verdict(ct, inf[m]) = "expired"
    IN [raised |-> \E i \in 1..Len(ids) : Verdict(ct, inf[ids[i]]) = "raise",
        list |-> SelectSeq(ids, IsExpired)]

\* the task of tasks.loop(minutes=1); current_loop counts its ticks, kept
\* here modulo two
IdleSweep ==
    [pc |-> "idle", current_time |-> 0, todo |-> <<>>, guild |-> 0,
     expired |-> <<>>, f |-> NoFrame, over |-> {}, start |-> {},
     handed |-> {}, failed |-> FALSE, current_loop |-> 0]

\* the task between two ticks, or after an exception left the loop
Rest(sw, pc) ==
    [IdleSweep EXCEPT !.pc = pc, !.current_loop = sw.current_loop]

\* lines 228-232: the keys end_giveaway_logic reads before its try
HasFields(giveaway_info) ==
    {"channel_id", "message_id", "prize", "winner_count", "entries"}
       \subseteq DOMAIN giveaway_info

\* await end_giveaway_logic(guild, giveaway_info) for the next listed
\* record; the KeyError of a record that lacks a key leaves the loop
Hand(sw, g, list, inf) ==
    IF ~HasFields(inf[Head(list)]) THEN Rest(sw, "stopped")
    ELSE [sw EXCEPT !.pc = "egl", !.guild = g, !.f = EglBegin(g, Head(list)),
                    !.expired = Tail(list), !.handed = @ \cup {Head(list)}]

\* for guild in bot.guilds: up to the next await, or to the end of the tick
RECURSIVE ScanFrom(_, _, _)
ScanFrom(sw, reg, inf) ==
    IF sw.todo = <<>> THEN Rest(sw, "idle")
    ELSE LET g == Head(sw.todo)
             rest == [sw EXCEPT !.todo = Tail(@)]
         IN IF g \notin DOMAIN reg THEN ScanFrom(rest, reg, inf)
            ELSE LET ex == expired_giveaways(g, sw.current_time, reg, inf)
                 IN IF ex.raised THEN Rest(sw, "stopped")
                    ELSE IF ex.list = <<>> THEN ScanFrom(rest, reg, inf)
                    ELSE Hand(rest, g, ex.list, inf)

\* for giveaway_info in expired_giveaways: the next one, or the next guild
Proceed(sw, reg, inf) ==
    IF sw.expired # <<>> THEN Hand(sw, sw.guild, sw.expired, inf)
    ELSE ScanFrom(sw, reg, inf)

\* the records stored when a tick starts whose end_time has been reached
ExpiredAtStart(ct, reg, inf) ==
    {p \in (DOMAIN reg) \X (1..Len(inf)) :
        /\ Str(p[2]) \in reg[p[1]]
        /\ Verdict(ct, inf[p[2]]) = "expired"}

\* the tick as it starts: current_time and the guild list are taken once
Started(sw) ==
    [IdleSweep EXCEPT !.current_loop = (sw.current_loop + 1) % 2,
                      !.current_time = now,
                      !.todo = SortedSeq(guilds),
                      !.over = guilds,
                      !.start = ExpiredAtStart(now, giveaways_data, info)]

\* a tick of the loop starts
check_giveaways ==
    /\ sweep.pc = "idle"
    /\ sweep' = ScanFrom(Started(sweep), giveaways_data, info)
    /\ reply' = NoReply
    /\ UNCHANGED <<restarts, backup_folder, tempbans, world, now, guilds, giveaways_data, info, disk, views,
                   ender, creator, sent>>

\* the sweep's end_giveaway_logic resumes from an await
SweepResume ==
    /\ sweep.pc = "egl"
    /\ \E r \in Outcomes, s \in Choices(info, sweep.f), w \in WriteOutcomes :
         LET res == EglResume(info, sweep.f, r, s)
             sw == [sweep EXCEPT !.failed = @ \/ (r # "ok")]
         IN /\ giveaways_data' = RegAfter(res)
            /\ disk' = DiskAfter(res, w)
            /\ sent' = SentAfter(res)
            /\ sweep' = IF res.raised THEN Rest(sw, "stopped")
                        ELSE IF res.returned
                        THEN Proceed(sw, RegAfter(res), info)
                        ELSE [sw EXCEPT !.f = res.f]
    /\ reply' = NoReply
    /\ UNCHANGED <<restarts, backup_folder, tempbans, world, now, guilds, info, views, ender, creator>>

\* ------------------------------------------------------------ giveaway_end
\* a lookup that searches every guild, as giveaway_reroll does
ActiveAnywhere(reg, g, key) == \E x \in DOMAIN reg : key \in reg[x]

\* guild_id_str in giveaways_data and key in giveaways_data[guild_id_str]:
\* the negation of the test of lines 661 and 1486
Active(reg, g, key) == g \in DOMAIN reg /\ key \in reg[g]

IdleEnder == [pc |-> "idle", guild |-> 0, key |-> <<>>, f |-> NoFrame]

\* lines 1485-1490: the lookup, then await interaction.response.defer
giveaway_end ==
    /\ ender.pc = "idle"
    /\ \E g \in guilds, m \in Ids :
         IF ~Active(giveaways_data, g, Str(m))
         THEN /\ reply' = [guild |-> 0, op |-> "giveaway_end", key |-> Str(m), user |-> 0,
                           res |-> "not found"]
              /\ UNCHANGED ender
         ELSE /\ ender' = [IdleEnder EXCEPT !.pc = "defer", !.guild = g,
                                            !.key = Str(m)]
              /\ reply' = NoReply
    /\ UNCHANGED <<restarts, backup_folder, tempbans, world, now, guilds, giveaways_data, info, disk, views,
                   sweep, creator, sent>>

\* lines 1491-1492: giveaways_data[guild][message_id] after the defer
EndDeferred ==
    /\ ender.pc = "defer"
    /\ IF /\ ender.guild \in DOMAIN giveaways_data
          /\ ender.key \in giveaways_data[ender.guild]
          /\ HasFields(info[ender.key[1]])
       THEN /\ ender' = [ender EXCEPT
                            !.pc = "egl",
                            !.f = EglBegin(ender.guild,
                                           info[ender.key[1]].message_id)]
            /\ reply' = NoReply
       ELSE /\ ender' = IdleEnder
            /\ reply' = [guild |-> 0, op |-> "giveaway_end", key |-> ender.key, user |-> 0,
                         res |-> "KeyError"]
    /\ UNCHANGED <<restarts, backup_folder, tempbans, world, now, guilds, giveaways_data, info, disk, views,
                   sweep, creator, sent>>

\* the command's end_giveaway_logic resumes from an await
EndResume ==
    /\ ender.pc = "egl"
    /\ \E r \in Outcomes, s \in Choices(info, ender.f), w \in WriteOutcomes :
         LET res == EglResume(info, ender.f, r, s)
         IN /\ giveaways_data' = RegAfter(res)
            /\ disk' = DiskAfter(res, w)
            /\ sent' = SentAfter(res)
            /\ ender' = IF res.raised \/ res.returned THEN IdleEnder
                        ELSE [ender EXCEPT !.f = res.f]
            /\ reply' = IF res.raised
                        THEN [guild |-> 0, op |-> "giveaway_end", key |-> ender.key,
                              user |-> 0, res |-> r]
                        ELSE IF res.returned
                        THEN [guild |-> 0, op |-> "giveaway_end", key |-> ender.key,
                              user |-> 0, res |-> "ended"]
                        ELSE NoReply
    /\ UNCHANGED <<restarts, backup_folder, tempbans, world, now, guilds, info, views, sweep, creator>>

\* --------------------------------------------------------- giveaway_reroll
\* lines 1502-1506: the search of every guild's giveaways for message_id
Found(reg, key) == \E x \in DOMAIN reg : key \in reg[x]

\* a draw that may name any user at all
AnyUser(seq) == Users

\* random.choice(entries): the elements the draw may return
choice(seq) == {seq[i] : i \in 1..Len(seq)}

\* the handler after its defer: nothing it does later reads the registry
\* again, and it changes nothing but what the caller and the channel see
giveaway_reroll ==
    /\ \E g \in guilds, m \in Ids, r \in Outcomes :
         LET entries == info[m].entries
         IN IF ~Found(giveaways_data, Str(m))
            THEN reply' = [guild |-> g, op |-> "giveaway_reroll", key |-> Str(m),
                           user |-> 0, res |-> "not found"]
            ELSE IF entries = <<>>
            THEN reply' = [guild |-> g, op |-> "giveaway_reroll", key |-> Str(m),
                           user |-> 0, res |-> "no entries"]
            ELSE \E new_winner \in choice(entries) :
                    reply' = [guild |-> g, op |-> "giveaway_reroll", key |-> Str(m),
                              user |-> new_winner,
                              res |-> IF r = "ok" THEN "rerolled" ELSE r]
    /\ UNCHANGED <<restarts, backup_folder, tempbans, world, now, guilds, giveaways_data, info, disk,
                   views, sweep, ender, creator, sent>>

\* ---------------------------------------------------------------- giveaway
\* a duration string is a sequence of tokens: a number with a unit letter
\* (d, h, m, s), or text the pattern has no group for ("x")
Token(n, u) == [n |-> n, u |-> u]

\* the groups of duration_regex, in the order the pattern lists them
Units == <<"d", "h", "m", "s">>

\* duration_regex.match: every group is optional and the match is anchored
\* at the start only, so each group takes the next token if it has its
\* unit, and whatever follows the last group that matched is left unread
RECURSIVE Groups(_, _)
Groups(duration, units) ==
    IF units = <<>> THEN <<>>
    ELSE IF duration # <<>> /\ Head(duration).u = Head(units)
    THEN <<Head(duration).n>> \o Groups(Tail(duration), Tail(units))
    ELSE <<0>> \o Groups(duration, Tail(units))

\* timedelta(days, hours, minutes, seconds), in seconds
timedelta(g) == g[1] * 86400 + g[2] * 3600 + g[3] * 60 + g[4]

\* parse_duration: None (0 here, as falsy as timedelta(0) in line 1436)
\* when every group is absent or zero
parse_duration(duration) ==
    LET g == Groups(duration, Units)
    IN IF \A i \in 1..Len(g) : g[i] = 0 THEN 0 ELSE timedelta(g)

\* the duration arguments of the command: "", "0s", "0d 0h", "abc", "1s",
\* "1s abc", "1s 0m" (out of order), "abc 1s"
DurationStrings ==
    {<<>>, <<Token(0, "s")>>, <<Token(0, "d"), Token(0, "h")>>,
     <<Token(0, "x")>>, <<Token(1, "s")>>, <<Token(1, "s"), Token(0, "x")>>,
     <<Token(1, "s"), Token(0, "m")>>, <<Token(0, "x"), Token(1, "s")>>}

\* a command that does not look at winner_count
RejectionNoCount(delta, winner_count, channel_found) ==
    IF delta = 0 THEN "invalid duration"
    ELSE IF ~channel_found THEN "channel not found"
    ELSE "none"

\* lines 1436-1457: what the command refuses, in the order it checks
Rejection(delta, winner_count, channel_found) ==
    IF delta = 0 THEN "invalid duration"
    ELSE IF winner_count < 1 THEN "invalid winner count"
    ELSE IF ~channel_found THEN "channel not found"
    ELSE "none"

\* at is the datetime.now of line 1444, from which end_time is computed
IdleCreator ==
    [pc |-> "idle", guild |-> 0, end_time |-> isoformat(0), winner_count |-> 0,
     at |-> 0, prize |-> ""]

\* the prize argument of the command
Prizes == {"Nitro"}

\* lines 1433-1459: the checks, then await giveaway_channel.send
giveaway ==
    /\ creator.pc = "idle"
    /\ Len(info) < MaxId
    /\ \E g \in guilds, duration \in DurationStrings, prize \in Prizes,
          winner_count \in 0..MaxWinners, channel_found \in BOOLEAN :
         LET delta == parse_duration(duration)
             refused == Rejection(delta, winner_count, channel_found)
         IN IF refused # "none"
            THEN /\ reply' = Response("giveaway", refused)
                 /\ UNCHANGED creator
            ELSE /\ creator' = [pc |-> "send", guild |-> g,
                                end_time |-> isoformat(now + delta),
                                winner_count |-> winner_count, at |-> now,
                                prize |-> prize]
                 /\ reply' = NoReply
    /\ UNCHANGED <<restarts, backup_folder, tempbans, world, now, guilds, giveaways_data, info, disk, views,
                   sweep, ender, sent>>

\* giveaways_data[guild_id_str][str(message.id)] = giveaway_info
Insert(reg, g, m) ==
    [x \in DOMAIN reg \cup {g} |->
        IF x = g THEN (IF g \in DOMAIN reg THEN reg[g] ELSE {}) \cup {Str(m)}
        ELSE reg[x]]

\* a record that starts with its first user entered twice
SeededRecord(g, m, prize, winner_count, end_time) ==
    [channel_id |-> g, message_id |-> m, prize |-> prize,
     winner_count |-> winner_count, end_time |-> end_time,
     entries |-> <<1, 1>>]

\* lines 1461-1469: giveaway_info as the command builds it
NewRecord(g, m, prize, winner_count, end_time) ==
    [channel_id |-> g, message_id |-> m, prize |-> prize,
     winner_count |-> winner_count, end_time |-> end_time,
     entries |-> <<>>]

\* lines 1459-1478: the message is posted, the record stored and saved
GiveawayPosted ==
    /\ creator.pc = "send"
    /\ \E r \in Outcomes, w \in WriteOutcomes :
         IF r = "ok"
         THEN LET m == Len(info) + 1
                  giveaway_info ==
                      NewRecord(creator.guild, m, creator.prize,
                                creator.winner_count, creator.end_time)
                  reg == Insert(giveaways_data, creator.guild, m)
              IN /\ info' = Append(info, giveaway_info)
                 /\ giveaways_data' = reg
                 /\ disk' = save_data(disk, Doc(reg, info'), w)
                 /\ views' = views \cup
                       {[message |-> m, guild |-> creator.guild,
                         giveaway_id |-> ViewId(creator.guild, creator.guild, m)]}
                 /\ reply' = Response("giveaway", "started")
         ELSE /\ reply' = Response("giveaway", r)
              /\ UNCHANGED <<info, giveaways_data, disk, views>>
    /\ creator' = IdleCreator
    /\ UNCHANGED <<restarts, backup_folder, tempbans, world, now, guilds, sweep, ender, sent>>

\* ------------------------------------------------------ GiveawayView.enter
\* the record a key of giveaways_data[guild] leads to
At(inf, key) == inf[key[1]]

enter ==
    /\ \E v \in views, u \in Users :
         /\ v.guild \in guilds
         /\ IF ~Active(giveaways_data, v.guild, v.giveaway_id)
            THEN /\ reply' = [guild |-> v.guild, op |-> "enter", key |-> Str(v.message), user |-> u,
                              res |-> "no longer active"]
                 /\ UNCHANGED <<info, disk>>
            ELSE IF \E i \in 1..Len(At(info, v.giveaway_id).entries) :
                        At(info, v.giveaway_id).entries[i] = u
            THEN /\ reply' = [guild |-> v.guild, op |-> "enter", key |-> Str(v.message), user |-> u,
                              res |-> "already entered"]
                 /\ UNCHANGED <<info, disk>>
            ELSE /\ info' = [info EXCEPT ![v.giveaway_id[1]].entries = Append(@, u)]
                 /\ \E w \in WriteOutcomes :
                       disk' = save_data(disk, Doc(giveaways_data, info'), w)
                 /\ reply' = [guild |-> v.guild, op |-> "enter", key |-> Str(v.message), user |-> u,
                              res |-> "entered"]
    /\ UNCHANGED <<restarts, backup_folder, tempbans, world, now, guilds, giveaways_data, views, sweep, ender,
                   creator, sent>>

\* --------------------------------------------------------- on_guild_remove
\* del data_dict[guild_id]
Drop(reg, g) == [x \in DOMAIN reg \ {g} |-> reg[x]]

on_guild_remove ==
    /\ \E g \in guilds, w \in WriteOutcomes :
         /\ guilds' = guilds \ {g}
         /\ IF g \in DOMAIN giveaways_data
            THEN /\ giveaways_data' = Drop(giveaways_data, g)
                 /\ disk' = save_data(disk, Doc(giveaways_data', info), w)
            ELSE UNCHANGED <<giveaways_data, disk>>
    /\ reply' = NoReply
    /\ UNCHANGED <<restarts, backup_folder, tempbans, world, now, info, views, sweep, ender, creator, sent>>

\* -------------------------------------------------------- backup_data_task
Retention == 5

\* BACKUP_FOLDER without a complete_backup_*.json file
NoFiles == [name \in {} |-> NoDoc]

\* os.path.getctime of the file named by stamp: the time of the write that
\* made it, which is the time its name was taken from
getctime(stamp) == stamp

\* backup_files.sort(key=os.path.getctime) over the names listed
RECURSIVE Sorted(_)
Sorted(names) ==
    IF names = {} THEN <<>>
    ELSE LET first == CHOOSE x \in names :
                         \A y \in names : getctime(x) <= getctime(y)
         IN <<first>> \o Sorted(names \ {first})

\* a loop that removes nothing
KeepAll(backup_files) == <<>>

\* while len(backup_files) >= 5: os.remove(backup_files.pop(0)): the files
\* it removes, in the order it removes them
RECURSIVE Pops(_)
Pops(backup_files) ==
    IF Len(backup_files) >= Retention
    THEN <<Head(backup_files)>> \o Pops(Tail(backup_files))
    ELSE <<>>

\* os.remove may raise where the file system fails
RemoveOutcomes == IF "disk" \in world THEN {"ok", "OSError"} ELSE {"ok"}

\* save_data(os.path.join(BACKUP_FOLDER, name), backup_data)
Written(folder, stamp, data, w) ==
    IF w = "open fails" THEN folder
    ELSE [x \in DOMAIN folder \cup {stamp} |->
            IF x = stamp
            THEN save_data([readable |-> FALSE, doc |-> NoDoc], data, w)
            ELSE folder[x]]

\* the folder without the files removed
Without(folder, removed) == [x \in DOMAIN folder \ removed |-> folder[x]]

\* one tick, which has no await: the listing, the removals, the write. The
\* reply is what the console shows: the files removed, and "complete",
\* "Error saving" (line 77, before "complete") or "failed" (line 350)
backup_data_task ==
    /\ \E d \in RemoveOutcomes, w \in WriteOutcomes :
         LET pops == Pops(Sorted(DOMAIN backup_folder))
             done == IF d = "ok" THEN pops ELSE <<>>
             removed == {done[i] : i \in 1..Len(done)}
             kept == Without(backup_folder, removed)
         IN IF d # "ok" /\ pops # <<>>
            THEN /\ backup_folder' = kept
                 /\ reply' = [guild |-> 0, op |-> "backup_data_task", key |-> done,
                               user |-> 0, res |-> "failed"]
            ELSE /\ backup_folder' =
                       Written(kept, now, Doc(giveaways_data, info), w)
                 /\ reply' = [guild |-> 0, op |-> "backup_data_task", key |-> done,
                               user |-> 0,
                               res |-> IF w = "ok" THEN "complete"
                                       ELSE "Error saving"]
    /\ UNCHANGED <<restarts, tempbans, giveaways, world, now>>

\* -------------------------------------------------------------------- time
Tick ==
    /\ now < MaxTime
    /\ now' = now + 1
    /\ reply' = NoReply
    /\ UNCHANGED <<restarts, backup_folder, tempbans, world, guilds, giveaways_data, info, disk, views, sweep,
                   ender, creator, sent>>

\* --------------------------------------------------------- check_temp_bans
\* a ban reason as the code reads it: whether it is a string, starts with
\* "Tempban until:", holds "Tempban until: " so that the split has a second
\* part, and the text between that and " | Reason:"
NotAString == [str |-> FALSE, prefix |-> FALSE, spaced |-> FALSE,
               stamp |-> [iso |-> FALSE, aware |-> FALSE, ts |-> 0]]

OtherReason == [NotAString EXCEPT !.str = TRUE]

NoSpace == [OtherReason EXCEPT !.prefix = TRUE]

NotIso == [NoSpace EXCEPT !.spaced = TRUE]

Naive(t) == [NotIso EXCEPT !.stamp = [iso |-> TRUE, aware |-> FALSE, ts |-> t]]

\* line 1287: f"Tempban until: {end_time.isoformat()} | Reason: ... "
ban_reason(end_time) == [NotIso EXCEPT !.stamp = isoformat(end_time)]

\* the reason matches the grammar the tempban command writes
Grammatical(reason) ==
    /\ reason.str /\ reason.prefix /\ reason.spaced
    /\ reason.stamp.iso /\ reason.stamp.aware

\* lines 278-283 on one ban entry, at time ct: "skip", "unban" or "raise"
Examine(ct, reason) ==
    IF ~(reason.str /\ reason.prefix) THEN "skip"
    ELSE IF ~reason.spaced THEN "skip"                 \* IndexError, line 291
    ELSE LET end_time == fromisoformat(reason.stamp)
         IN IF end_time.err # "none" THEN "skip"       \* ValueError, line 291
            ELSE LET c == CompareGE(ct, end_time)
                 IN IF c.err # "none" THEN "raise"     \* TypeError, line 295
                    ELSE IF c.ge THEN "unban" ELSE "skip"

NoBans == [g \in Guilds |-> <<>>]

\* guild.bans(): the entries in the order of their user ids
Listing(b) == SortedSeq(DOMAIN b)

IdleUnbanner ==
    [pc |-> "idle", todo |-> <<>>, guild |-> 0, rest |-> <<>>, page |-> <<>>,
     user |-> 0, due |-> {}, first |-> {}, seen |-> {}, calls |-> <<>>,
     failed |-> FALSE, broke |-> {}]

\* the task between two ticks: what the last tick met stays on the console
Rested(t) ==
    [IdleUnbanner EXCEPT !.seen = t.seen, !.failed = t.failed,
                         !.broke = t.broke]

\* the bans of grammatical reason whose expiry is reached at time ct
Due(ct, b) ==
    {p \in Guilds \X Users :
        /\ p[2] \in DOMAIN b[p[1]]
        /\ Grammatical(b[p[1]][p[2]])
        /\ b[p[1]][p[2]].stamp.ts <= ct}

\* the bans in force
Banned(b) == {p \in Guilds \X Users : p[2] \in DOMAIN b[p[1]]}

\* for guild in bot.guilds: the next guild's guild.bans() is awaited, or
\* the tick is over
NextGuild(t) ==
    IF t.todo = <<>> THEN Rested(t)
    ELSE [t EXCEPT !.pc = "list", !.guild = Head(t.todo), !.todo = Tail(t.todo),
                   !.rest = <<>>, !.page = <<>>, !.user = 0]

\* async for ban_entry in guild.bans(): up to the next await
RECURSIVE ExamineFrom(_, _)
ExamineFrom(t, ct) ==
    IF t.rest = <<>> THEN NextGuild(t)
    ELSE LET u == Head(t.rest)
             v == Examine(ct, t.page[u])
             after == [t EXCEPT !.rest = Tail(t.rest)]
         IN CASE v = "skip" -> ExamineFrom(after, ct)
              [] v = "raise" -> NextGuild(after)
              [] OTHER -> [after EXCEPT !.pc = "unban", !.user = u,
                                        !.calls = Append(@, <<t.guild, u>>)]

\* a tick of the loop starts: the first guild's bans are requested
check_temp_bans ==
    /\ unbanner.pc = "idle"
    /\ unbanner' =
          NextGuild([IdleUnbanner EXCEPT
                        !.todo = SortedSeq(guilds),
                        !.due = Due(now, bans),
                        !.first = Due(now, bans) \ unbanner.seen,
                        !.seen = (unbanner.seen \cap Banned(bans))
                                    \cup Due(now, bans)])
    /\ reply' = NoReply
    /\ UNCHANGED <<restarts, backup_folder, giveaways, world, now, bans>>

\* a loop whose handlers are around the for over the guilds: a failed call
\* ends the tick
TickFailed(t) ==
    Rested([t EXCEPT !.failed = TRUE, !.broke = @ \cup {t.guild}])

\* a Discord call of the task failed: except discord.Forbidden, except
\* Exception (lines 293-296) end the guild, the loop goes on
GuildFailed(t) ==
    NextGuild([t EXCEPT !.failed = TRUE, !.broke = @ \cup {t.guild}])

\* guild.bans() answers
BansListed ==
    /\ unbanner.pc = "list"
    /\ \E r \in Outcomes :
         unbanner' =
            IF r # "ok" THEN GuildFailed(unbanner)
            ELSE ExamineFrom([unbanner EXCEPT
                                 !.page = bans[unbanner.guild],
                                 !.rest = Listing(bans[unbanner.guild])], now)
    /\ reply' = NoReply
    /\ UNCHANGED <<restarts, backup_folder, giveaways, world, now, bans>>

\* the ban list without the user
Lifted(b, g, u) ==
    [b EXCEPT ![g] = [x \in DOMAIN b[g] \ {u} |-> b[g][x]]]

\* guild.unban(ban_entry.user) answers
UnbanReturned ==
    /\ unbanner.pc = "unban"
    /\ \E r \in Outcomes :
         IF r # "ok"
         THEN /\ unbanner' = GuildFailed(unbanner)
              /\ UNCHANGED bans
         ELSE /\ unbanner' = [unbanner EXCEPT !.pc = "log"]
              /\ bans' = Lifted(bans, unbanner.guild, unbanner.user)
    /\ reply' = NoReply
    /\ UNCHANGED <<restarts, backup_folder, giveaways, world, now>>

\* find_or_create_channel and log_channel.send answer
LogSent ==
    /\ unbanner.pc = "log"
    /\ \E r \in Outcomes :
         unbanner' = IF r # "ok" THEN GuildFailed(unbanner)
                     ELSE ExamineFrom(unbanner, now)
    /\ reply' = NoReply
    /\ UNCHANGED <<restarts, backup_folder, giveaways, world, now, bans>>

\* the tempban command, lines 1267-1294: duration 0 is "0m"
tempban ==
    /\ \E g \in guilds, user \in Users, value \in 0..1, r \in Outcomes :
         /\ user \notin DOMAIN bans[g]
         /\ IF value = 0
            THEN /\ reply' = Response("tempban", "invalid duration")
                 /\ UNCHANGED bans
            ELSE IF r # "ok"
            THEN /\ reply' = Response("tempban", r)
                 /\ UNCHANGED bans
            ELSE /\ reply' = Response("tempban", "issued")
                 /\ bans' = [bans EXCEPT ![g] =
                               [x \in DOMAIN @ \cup {user} |->
                                  IF x = user THEN ban_reason(now + value)
                                  ELSE @[x]]]
    /\ UNCHANGED <<restarts, backup_folder, giveaways, world, now, unbanner>>

\* ------------------------------------------------------------------- start
\* a record of a giveaways.json written by an earlier run
LoadedRecord(g, wc, t, entries) ==
    [channel_id |-> g, message_id |-> 0, prize |-> "Nitro", winner_count |-> wc,
     end_time |-> isoformat(t), entries |-> entries]

\* the registry that holds the loaded records under their guilds
LoadedRegistry(inf) ==
    [g \in {inf[m].channel_id : m \in 1..Len(inf)} |->
        {Str(m) : m \in {x \in 1..Len(inf) : inf[x].channel_id = g}}]

\* ----------------------------------------------------------------- restart
MaxRestarts == 1    \* the restarts of the process a behaviour goes through

\* line 82 on the file as the stopped process left it: the registry ...
Reloaded(file) == [g \in DOMAIN load_data(file) |-> DOMAIN load_data(file)[g]]

\* ... and its records, as new objects
Reread(file, inf) ==
    [m \in 1..Len(inf) |->
        IF \E g \in DOMAIN load_data(file) : Str(m) \in DOMAIN load_data(file)[g]
        THEN LET g == CHOOSE x \in DOMAIN load_data(file) :
                         Str(m) \in DOMAIN load_data(file)[x]
             IN load_data(file)[g][Str(m)]
        ELSE inf[m]]

\* the process stops, wherever its handlers and tasks are, and starts
\* again: the module is loaded (line 82), on_ready starts the tasks (lines
\* 743-745) and registers no GiveawayView; bot.guilds is what Discord
\* reports now, without the guilds the bot was removed from meanwhile
restart ==
    /\ restarts < MaxRestarts
    /\ restarts' = restarts + 1
    /\ giveaways_data' = Reloaded(disk)
    /\ info' = Reread(disk, info)
    /\ \E left \in SUBSET guilds : guilds' = guilds \ left
    /\ views' = {}
    /\ sweep' = IdleSweep
    /\ ender' = IdleEnder
    /\ creator' = IdleCreator
    /\ unbanner' = IdleUnbanner
    /\ reply' = Response("on_ready", "started")
    /\ UNCHANGED <<backup_folder, world, now, disk, sent, bans>>

\* the state once the module is loaded and on_ready has started the tasks
Booted(worlds, memberships, files, banlists) ==
    /\ world \in worlds
    /\ now = 0
    /\ guilds \in memberships
    /\ \E loaded \in files :
         info = [m \in 1..Len(loaded) |-> [loaded[m] EXCEPT !.message_id = m]]
    /\ giveaways_data = LoadedRegistry(info)
    /\ disk = [readable |-> TRUE, doc |-> dump(Doc(giveaways_data, info))]
    /\ views = {}
    /\ sweep = IdleSweep
    /\ ender = IdleEnder
    /\ creator = IdleCreator
    /\ sent = [m \in Ids |-> <<>>]
    /\ reply = NoReply
    /\ bans \in banlists
    /\ unbanner = IdleUnbanner
    /\ backup_folder = NoFiles
    /\ restarts = 0

\* the same, in guilds without bans
Start(worlds, memberships, files) ==
    Booted(worlds, memberships, files, {NoBans})

\* giveaways.json holds at most one record, with entries or without
OneRecordFiles ==
    {<<>>} \cup
    {<<LoadedRecord(g, 1, t, e)>> : g \in Guilds, t \in 0..1, e \in {<<>>, <<1, 2>>}}

\* every handler at work, the platform answering every call
Init == Start({{}}, {Guilds}, OneRecordFiles)

Next ==
    \/ check_giveaways
    \/ SweepResume
    \/ giveaway_end
    \/ EndDeferred
    \/ EndResume
    \/ giveaway
    \/ GiveawayPosted
    \/ enter
    \/ on_guild_remove
    \/ Tick

Spec == Init /\ [][Next]_vars


\* ------------------------------------------------------------- properties
\* the record is in the registry, under whichever guild
StoredAnywhere(reg, m) == \E g \in DOMAIN reg : Str(m) \in reg[g]

\* the record is in the document load_data reads back from the file
Persisted(file, m) ==
    \E g \in DOMAIN load_data(file) : Str(m) \in DOMAIN load_data(file)[g]

\* the result announcements channel.send delivered for a giveaway
Announced(m) == SelectSeq(sent[m], LAMBDA o : o # "failed")

\* the user ids in an entries list
Entrants(entries) == {entries[i] : i \in 1..Len(entries)}

\* this step is the last of a tick of check_giveaways
TickEnds ==
    \/ sweep.pc = "egl" /\ sweep'.pc = "idle"
    \/ sweep.pc = "idle" /\ check_giveaways /\ sweep'.pc = "idle"

\* what the tick that ends with this step found expired when it started
TickStart ==
    IF sweep.pc = "idle" THEN ExpiredAtStart(now, giveaways_data, info)
    ELSE sweep.start

\* C1: whatever the interleaving of the sweep and the giveaway_end command
\* on one giveaway, one result announcement is sent for it, never two
C1_OneAnnouncement == \A m \in Ids : Len(Announced(m)) <= 1

\* C2: after a press of the entry button of a giveaway that is still
\* active, the participant is in its entries (entered now, or already
\* entered before): the first press yields Entered
C2_FirstEnterEnters ==
    (/\ reply.op = "enter"
     /\ StoredAnywhere(giveaways_data, reply.key[1]))
    => /\ reply.res \in {"entered", "already entered"}
       /\ reply.user \in Entrants(info[reply.key[1]].entries)

\* C3: when a tick ends, every giveaway that was stored with
\* end_time <= current_time when the tick started, and is still stored,
\* was handed to end_giveaway_logic by the tick
C3_SweepHandsEveryExpired ==
    [][TickEnds =>
          \A p \in TickStart :
             StoredAnywhere(giveaways_data', p[2]) => p[2] \in sweep.handed]_vars

\* C8: once an invocation of end_giveaway_logic for a giveaway has
\* returned, the giveaway is neither in the registry nor in the persisted
\* document
C8_ConcludedIsAbsent ==
    \A m \in 1..Len(info) :
       sent[m] # <<>> =>
          /\ ~StoredAnywhere(giveaways_data, m)
          /\ ~Persisted(disk, m)

\* the files written fail: the platform answers every call
InitDisk == Start({{"disk"}}, {Guilds}, OneRecordFiles)

NextEnd ==
    \/ check_giveaways
    \/ SweepResume
    \/ giveaway_end
    \/ EndDeferred
    \/ EndResume

SpecDisk == InitDisk /\ [][NextEnd]_vars


\* ------------------------------------------------------------- the draw
MaxEntries == 3    \* the longest entries list of a loaded record

\* entries lists as stored: ids in the order entered, repeats included
EntriesLists == UNION {[1..n -> Users] : n \in 0..MaxEntries}

\* giveaways.json holds one expired record, any entries, any winner_count
DrawFiles ==
    {<<LoadedRecord(1, wc, 0, e)>> : wc \in 1..MaxWinners, e \in EntriesLists}

InitDraw == Start({{}}, {Guilds}, DrawFiles)

SpecDraw == InitDraw /\ [][NextEnd]_vars

\* the frames of end_giveaway_logic that are running
Frames == {f \in {sweep.f, ender.f} : f.pc # "none"}

\* C4: for winner_count >= 1 and a non-empty entries list, the completion
\* draws min(winner_count, len(entries)) winners, from pairwise distinct
\* positions of entries, and every winner is an element of entries
C4_WinnersDrawn ==
    \A f \in Frames :
       LET entries == info[f.m].entries
           winner_count == info[f.m].winner_count
       IN (winner_count >= 1 /\ Len(entries) >= 1 /\ f.pc \in {"edit", "send"})
          => /\ f.kind = "winners"
             /\ Len(f.pos) = Min(winner_count, Len(entries))
             /\ \A i \in 1..Len(f.pos) : f.pos[i] \in 1..Len(entries)
             /\ \A i \in 1..Len(f.pos) : \A j \in 1..Len(f.pos) :
                   i # j => f.pos[i] # f.pos[j]
             /\ \A i \in 1..Len(f.pos) : Winners(info, f)[i] \in Entrants(entries)

\* C4 happens: two winners drawn out of three entries, and one entry drawn
\* for a winner_count of two
C4_Witness ==
    /\ \E f \in Frames :
          /\ f.kind = "winners"
          /\ Len(f.pos) = 2
          /\ Len(info[f.m].entries) = 3
          /\ info[f.m].winner_count = 2


\* ------------------------- the completions, the guild-leave event, the clock
NextPipeline ==
    \/ check_giveaways
    \/ SweepResume
    \/ giveaway_end
    \/ EndDeferred
    \/ EndResume
    \/ on_guild_remove
    \/ Tick

\* Discord answers every call, or may refuse any of them
InitPipeline == Start({{}, {"http"}}, {Guilds}, OneRecordFiles)

SpecPipeline == InitPipeline /\ [][NextPipeline]_vars

\* a completion of giveaway m ends with this step
Completes(m) == sent'[m] # sent[m]

\* no frame of a giveaway without entries has drawn winners
NoDrawOnEmpty ==
    \A f \in Frames :
       info[f.m].entries = <<>> => f.kind # "winners" /\ f.pos = <<>>

\* C5 as stated: every completion of a giveaway with empty entries sends
\* the "ended with no entries" announcement
C5_AlwaysAnnounced ==
    [][\A m \in 1..Len(info) :
          (info[m].entries = <<>> /\ Completes(m))
             => sent'[m] = Append(sent[m], "no entries")]_vars

\* C5 amended: a completion of a giveaway with empty entries sends the
\* "ended with no entries" announcement when its Discord calls succeed and
\* nothing otherwise; it draws no winners, sends no winners announcement,
\* raises nothing and leaves the giveaway out of the registry
C5_NoEntriesCompletion ==
    [][/\ NoDrawOnEmpty'
       /\ \A m \in 1..Len(info) :
             (info[m].entries = <<>> /\ Completes(m))
                => /\ \/ sent'[m] = Append(sent[m], "no entries")
                      \/ "http" \in world /\ sent'[m] = Append(sent[m], "failed")
                   /\ ~StoredAnywhere(giveaways_data', m)
                   /\ sweep'.pc # "stopped"
                   /\ reply'.res \notin Outcomes \ {"ok"}]_vars

\* C5 happens: a giveaway without entries was completed and announced so
C5_Witness ==
    \E m \in 1..Len(info) :
       /\ info[m].entries = <<>>
       /\ sent[m] = <<"no entries">>
       /\ ~StoredAnywhere(giveaways_data, m)

\* giveaways.json holds up to two records, with or without entries
TwoRecordFiles ==
    LET Records == {LoadedRecord(g, 1, t, e) :
                       g \in Guilds, t \in 0..1, e \in {<<>>, <<1>>}}
    IN {<<>>} \cup {<<r>> : r \in Records}
              \cup {<<r1, r2>> : r1 \in Records, r2 \in Records}

InitSweep == Start({{"http"}}, {Guilds}, TwoRecordFiles)

SpecSweep == InitSweep /\ [][NextEnd]_vars

\* the guilds the tick that ends with this step iterates over
TickOver == IF sweep.pc = "idle" THEN guilds ELSE sweep.over

\* C7: a Discord error in the completion of one giveaway does not end the
\* tick: the task never stops, and when the tick ends every giveaway it
\* handed to completion, and every giveaway that was expired at its start
\* in a guild the tick iterates over, is out of the registry
C7_SweepIsolatesErrors ==
    [][/\ sweep'.pc # "stopped"
       /\ TickEnds =>
             /\ \A m \in sweep.handed : ~StoredAnywhere(giveaways_data', m)
             /\ \A p \in TickStart :
                   p[1] \in TickOver => ~StoredAnywhere(giveaways_data', p[2])]_vars

\* C7 happens: a completion of this tick has failed, and the tick is
\* completing another giveaway, of a later guild
C7_Witness ==
    /\ sweep.pc = "egl"
    /\ sweep.failed
    /\ \E m \in sweep.handed : m # sweep.f.m /\ info[m].channel_id < sweep.guild


\* ------------------------------------------------ the loop keeps ticking
\* the bot may have left a guild while it was not running: giveaways.json
\* still holds the guild, bot.guilds does not
InitFair == Start({{"http"}}, (SUBSET Guilds) \ {{}}, OneRecordFiles)

\* tasks.loop(minutes=1) starts a tick whenever the last one is over, and
\* every awaited call of the sweep returns or raises
SpecFair ==
    /\ InitFair
    /\ [][NextPipeline]_vars
    /\ WF_vars(check_giveaways)
    /\ WF_vars(SweepResume)

\* the giveaway is in the registry and its deadline has elapsed
Elapsed(m) ==
    /\ m \in 1..Len(info)
    /\ StoredAnywhere(giveaways_data, m)
    /\ Verdict(now, info[m]) = "expired"

\* C6: while ticks keep occurring, a giveaway in the registry whose
\* deadline has elapsed is eventually out of the registry and out of the
\* persisted document
C6_ExpiredEventuallyRemoved ==
    \A m \in Ids :
       Elapsed(m) ~> (~StoredAnywhere(giveaways_data, m) /\ ~Persisted(disk, m))


\* ------------------------------------------------------------ the tempbans
NextBans ==
    \/ check_temp_bans
    \/ BansListed
    \/ UnbanReturned
    \/ LogSent
    \/ tempban
    \/ Tick

\* the reasons a ban of the platform may carry
Reasons ==
    {NotAString, OtherReason, NoSpace, NotIso, Naive(0), ban_reason(0),
     ban_reason(1)}

\* the ban lists at the start: any bans in guild 1, an expired tempban or
\* none in the other guilds
BanLists ==
    LET Mixed == UNION {[D -> Reasons] : D \in SUBSET Users}
        Few == {<<>>, [u \in {1} |-> ban_reason(0)]}
    IN {b \in [Guilds -> Mixed] : \A g \in Guilds \ {1} : b[g] \in Few}

InitBans == Booted({{}, {"http"}}, {Guilds}, {<<>>}, BanLists)

SpecBans == InitBans /\ [][NextBans]_vars

\* this step issues guild.unban for the ban entry unbanner'.user
Issued == unbanner.pc # "unban" /\ unbanner'.pc = "unban"

\* the reason of the ban this step issues the unban for
IssuedReason == unbanner'.page[unbanner'.user]

\* this step is the last of a tick of check_temp_bans
BanTickEnds == unbanner.pc # "idle" /\ unbanner'.pc = "idle"

\* how many unban calls the tick has issued for the ban p
Calls(p) == Cardinality({i \in 1..Len(unbanner.calls) : unbanner.calls[i] = p})

\* C9: no unban is issued for a tempban before its expiry or once it is
\* lifted, and the first tick that starts at or after the expiry of a
\* tempban issues exactly one unban call for it
C9_UnbanTiming ==
    [][/\ Issued =>
             /\ unbanner'.user \in DOMAIN bans[unbanner'.guild]
             /\ Grammatical(IssuedReason) => IssuedReason.stamp.ts <= now
       /\ BanTickEnds => \A p \in unbanner.first : Calls(p) = 1]_vars

\* C10: a ban whose reason is not of the tempban grammar is never
\* unbanned, and in a tick whose Discord calls all succeed it does not keep
\* the bans listed after it in its guild from being unbanned when expired
C10_MalformedSkipped ==
    [][/\ Issued => Grammatical(IssuedReason)
       /\ (BanTickEnds /\ ~unbanner'.failed) =>
             \A p \in unbanner.due :
                (\E u \in DOMAIN bans[p[1]] :
                    u < p[2] /\ ~Grammatical(bans[p[1]][u]))
                   => Calls(p) >= 1]_vars

\* ------------------------------------------- the tempban loop left alone
NextUnban ==
    \/ check_temp_bans
    \/ BansListed
    \/ UnbanReturned
    \/ LogSent
    \/ Tick

\* each guild has no ban, expired tempbans, or an expired tempban listed
\* after a ban whose expiry has no offset
GuildBans ==
    {<<>>,
     [u \in {1} |-> ban_reason(0)],
     [u \in {1, 2} |-> ban_reason(0)],
     [u \in {1, 2} |-> IF u = 1 THEN Naive(0) ELSE ban_reason(0)]}

InitUnban == Booted({{"http"}}, {Guilds}, {<<>>}, [Guilds -> GuildBans])

SpecUnban == InitUnban /\ [][NextUnban]_vars

\* the expiry of the reason parses and cannot be compared with now
Incomparable(reason) ==
    /\ reason.str /\ reason.prefix /\ reason.spaced
    /\ reason.stamp.iso /\ ~reason.stamp.aware

\* the scan of guild g reaches the ban of user u in a tick that ends with
\* the state t of the task: no call failed in g, no entry before u raised
Reached(t, g, u) ==
    /\ g \notin t.broke
    /\ \A x \in DOMAIN bans[g] : x < u => ~Incomparable(bans[g][x])

\* C11: a failed call (Forbidden or another error) while the bans of one
\* guild are listed or lifted does not end the tick: at the end of the
\* tick the ban list of every guild has been requested, and every tempban
\* that was expired when the tick started, in a guild where no call failed,
\* has got its unban call
C11_ForbiddenIsPerGuild ==
    [][BanTickEnds =>
          /\ unbanner.todo = <<>>
          /\ \A p \in unbanner.due :
                Reached(unbanner', p[1], p[2]) => Calls(p) = 1]_vars

\* C11 happens: a call failed in an earlier guild of the tick, and the
\* tick has issued the unban of an expired tempban of a later guild
C11_Witness ==
    /\ unbanner.pc = "unban"
    /\ unbanner.broke # {}
    /\ \A g \in unbanner.broke : g < unbanner.guild
    /\ <<unbanner.guild, unbanner.user>> \in unbanner.due

\* ------------------------------------------------- the giveaway command
NextCreate ==
    \/ giveaway
    \/ GiveawayPosted
    \/ Tick

InitCreate == Start({{"http"}}, {Guilds}, {<<>>})

SpecCreate == InitCreate /\ [][NextCreate]_vars

\* this step is a giveaway command that is refused
Refused ==
    /\ reply'.op = "giveaway"
    /\ reply'.res \in {"invalid duration", "invalid winner count",
                       "channel not found"}

\* this step is a giveaway command that goes on to post the message
Accepted == creator.pc = "idle" /\ creator'.pc = "send"

NextLookup ==
    \/ giveaway
    \/ GiveawayPosted
    \/ enter
    \/ giveaway_end
    \/ EndDeferred
    \/ EndResume

\* the bot is in two guilds
InitLookup == Start({{}}, {{1, 2}}, {<<>>})

SpecLookup == InitLookup /\ [][NextLookup]_vars

\* the key is in the active set of the guild
InActiveSet(g, key) ==
    g \in DOMAIN giveaways_data /\ key \in giveaways_data[g]

\* this step answers not-found to enter or to giveaway_end
NotFound ==
    \/ reply'.op = "enter" /\ reply'.res = "no longer active"
    \/ reply'.op = "giveaway_end" /\ reply'.res = "not found"

\* C13: giveaway_end goes on, and enter answers entered or already
\* entered, only for an id that is in the active set of the invoking guild;
\* with any other id they answer not-found, announce nothing and leave the
\* registry, the records and giveaways.json as they were
C13_UnknownIdIsNotFound ==
    [][/\ (ender.pc = "idle" /\ ender'.pc = "defer") =>
             InActiveSet(ender'.guild, ender'.key)
       /\ (reply'.op = "enter" /\ reply'.res # "no longer active") =>
             \E v \in views :
                /\ Str(v.message) = reply'.key
                /\ InActiveSet(v.guild, v.giveaway_id)
       /\ NotFound =>
             UNCHANGED <<giveaways_data, info, disk, sent, ender, views>>]_vars

\* C13 happens: giveaway_end answers not-found for a giveaway it has
\* concluded before, while another guild has a giveaway stored
C13_Witness ==
    /\ reply.op = "giveaway_end" /\ reply.res = "not found"
    /\ sent[reply.key[1]] # <<>>
    /\ \E m \in 1..Len(info) : StoredAnywhere(giveaways_data, m)

\* ------------------------------------------- entering while the clock runs
NextEntry ==
    \/ giveaway
    \/ GiveawayPosted
    \/ enter
    \/ check_giveaways
    \/ SweepResume
    \/ Tick

\* the bot is in one guild
InitEntry == Start({{}}, {{1}}, {<<>>})

SpecEntry == InitEntry /\ [][NextEntry]_vars

\* the giveaway is over: its end_time is reached, or it has been completed
\* or removed
Over(m) ==
    \/ now >= info[m].end_time.ts
    \/ sent[m] # <<>>
    \/ ~StoredAnywhere(giveaways_data, m)

\* C14: no press of the button on a giveaway whose end_time is reached,
\* or that is concluded, answers entered or adds to its entries
C14_NoLateEntry ==
    [][\A m \in 1..Len(info) :
          Over(m) =>
             /\ info'[m].entries = info[m].entries
             /\ ~(reply'.op = "enter" /\ reply'.key = Str(m)
                    /\ reply'.res = "entered")]_vars

\* C14 happens: the button was pressed on a giveaway that is still stored
\* after its end_time
C14_Witness ==
    /\ reply.op = "enter"
    /\ StoredAnywhere(giveaways_data, reply.key[1])
    /\ now >= info[reply.key[1]].end_time.ts

\* ------------------------------------------------- reroll after conclusion
NextReroll ==
    \/ check_giveaways
    \/ SweepResume
    \/ giveaway_end
    \/ EndDeferred
    \/ EndResume
    \/ giveaway_reroll
    \/ Tick

\* giveaways.json holds one record; the platform answers every call
InitReroll == Start({{}}, {Guilds}, OneRecordFiles)

SpecReroll == InitReroll /\ [][NextReroll]_vars

\* the completion of m has announced its result and removed the record
Concluded(m) ==
    /\ m \in 1..Len(info)
    /\ Announced(m) # <<>>
    /\ ~StoredAnywhere(giveaways_data, m)

\* C15: a reroll of a concluded giveaway that had at least one entry finds
\* the record and names one of its entrants; it does not report not-found
C15_RerollAfterConclusion ==
    [][\A m \in Ids :
          (/\ Concluded(m)
           /\ info[m].entries # <<>>
           /\ reply'.op = "giveaway_reroll"
           /\ reply'.key = Str(m))
          => /\ reply'.res = "rerolled"
             /\ reply'.user \in Entrants(info[m].entries)]_vars

\* ------------------------------------------------------ failed disk writes
\* the platform answers every call; the writes of giveaways.json may fail
InitPersist == Start({{"disk"}}, {Guilds}, {<<>>})

SpecPersist == InitPersist /\ [][NextCreate]_vars

\* what a restart would load is what the registry holds
InSync == load_data(disk) = Doc(giveaways_data, info)

\* the step just taken told its caller the giveaway was created or entered
ToldSuccess ==
    \/ reply = Response("giveaway", "started")
    \/ reply.op = "enter" /\ reply.res = "entered"

\* C16: no caller is told that the giveaway was created or entered while
\* giveaways.json and the registry in memory differ
C16_NoSuccessOnFailedWrite == ToldSuccess => InSync

\* ---------------------------------------------------- the guild-leave event
NextLeave ==
    \/ check_giveaways
    \/ SweepResume
    \/ giveaway
    \/ GiveawayPosted
    \/ on_guild_remove
    \/ Tick

\* giveaways.json holds at most one record; the platform answers every call
InitLeave == Start({{}}, {Guilds}, OneRecordFiles)

SpecLeave == InitLeave /\ [][NextLeave]_vars

\* this step is the guild-leave event of guild g
Leaves(g) == g \in guilds /\ g \notin guilds'

\* this step belongs to a tick of check_giveaways
SweepStep == sweep' # sweep

\* C17: the guild-leave event of G removes G's subtree from the registry and
\* saves the document, the giveaways of the other guilds stay as they are,
\* and after it no step of check_giveaways removes a giveaway of G or writes
\* giveaways.json for one
C17_GuildLeave ==
    [][/\ \A g \in Guilds :
             Leaves(g) =>
                /\ g \notin DOMAIN giveaways_data'
                /\ \A x \in DOMAIN giveaways_data \ {g} :
                      /\ x \in DOMAIN giveaways_data'
                      /\ giveaways_data'[x] = giveaways_data[x]
                /\ info' = info
                /\ g \in DOMAIN giveaways_data
                      => load_data(disk') = Doc(giveaways_data', info')
       /\ \A g \in Guilds \ guilds :
             (SweepStep /\ sweep.f.guild = g) =>
                UNCHANGED <<giveaways_data, disk>>]_vars

\* ------------------------------------------------------ the backup rotation
MaxHours == 6    \* the backup periods the clock goes through

\* the six hours between two ticks of backup_data_task pass
SixHours ==
    /\ now < MaxHours
    /\ now' = now + 1
    /\ reply' = NoReply
    /\ UNCHANGED <<restarts, backup_folder, tempbans, giveaways, world>>

NextBackup ==
    \/ backup_data_task
    \/ SixHours

\* no giveaways; the file system works, or may fail any write or removal
InitBackup == Start({{}, {"disk"}}, {Guilds}, {<<>>})

SpecBackup == InitBackup /\ [][NextBackup]_vars

\* this step is a tick of backup_data_task
BackupTick == reply'.op = "backup_data_task"

\* the snapshot files the step removed from the folder
Deleted == DOMAIN backup_folder \ DOMAIN backup_folder'

\* C18: once a backup tick has finished the folder holds at most five
\* snapshot files; a tick whose write succeeded leaves its new snapshot in
\* the folder; and every snapshot a tick deletes is older than every
\* snapshot it keeps
C18_BackupRetention ==
    [][BackupTick =>
          /\ Cardinality(DOMAIN backup_folder') <= 5
          /\ reply'.res = "complete" =>
                /\ now \in DOMAIN backup_folder'
                /\ backup_folder'[now].readable
                /\ load_data(backup_folder'[now]) = Doc(giveaways_data, info)
          /\ \A d \in Deleted : \A k \in DOMAIN backup_folder \ Deleted :
                d < k]_vars

\* C18 happens: a tick removed the oldest snapshot, wrote the new one and
\* left five files
C18_Witness ==
    /\ reply.op = "backup_data_task"
    /\ reply.res = "complete"
    /\ reply.key # <<>>
    /\ Cardinality(DOMAIN backup_folder) = 5

\* ------------------------------------------------------- save and load back
\* prizes as users type them
PrizeStrings == {"Nitro", "2x \"Key\""}

\* entries lists: empty, one user, two users out of order, a user twice
RoundEntries == {<<>>, <<1>>, <<2, 1>>, <<2, 1, 2>>}

\* giveaways.json holds an expired giveaway of guild 1 and a second one, of
\* any guild, winner_count, end_time, entries and prize
RoundFiles ==
    {<<LoadedRecord(1, 1, 0, <<>>),
       [LoadedRecord(g, wc, t, e) EXCEPT !.prize = p]>> :
         g \in {1, 2}, wc \in 1..MaxWinners, t \in Times,
         e \in RoundEntries, p \in PrizeStrings}

NextRound ==
    \/ check_giveaways
    \/ SweepResume
    \/ on_guild_remove
    \/ Tick

\* the bot is in two guilds
InitRound == Start({{}}, {{1, 2}}, RoundFiles)

SpecRound == InitRound /\ [][NextRound]_vars

\* what load_data reads back holds record key of guild g as info has it
ReadsBack(file, inf, g, key) ==
    /\ g \in DOMAIN load_data(file)
    /\ key \in DOMAIN load_data(file)[g]
    /\ LET back == load_data(file)[g][key]
           giveaway_info == inf[key[1]]
       IN /\ back.entries = giveaway_info.entries
          /\ back.end_time = giveaway_info.end_time
          /\ fromisoformat(back.end_time) = fromisoformat(giveaway_info.end_time)
          /\ back.prize = giveaway_info.prize
          /\ back.winner_count = giveaway_info.winner_count

PersistedEntrants(file, m) ==
    UNION {Entrants(load_data(file)[g][Str(m)].entries) :
             g \in {x \in DOMAIN load_data(file) :
                       Str(m) \in DOMAIN load_data(file)[x]}}

\* C20: an enter that answers "entered" leaves its user in the entries of
\* the giveaway, in memory and in giveaways.json, and no step takes a user
\* out of the entries: of two users told "entered", both are in the entries
C20_NoLostUpdates ==
    [][\A m \in 1..Len(info) :
          /\ Entrants(info[m].entries) \subseteq Entrants(info'[m].entries)
          /\ (reply'.op = "enter" /\ reply'.res = "entered"
                 /\ reply'.key = Str(m))
             => /\ reply'.user \in Entrants(info'[m].entries)
                /\ Entrants(info'[m].entries) \subseteq
                      PersistedEntrants(disk', m)]_vars

\* two users are in the entries of one giveaway, the second just told so
C20_BothEntered ==
    /\ reply.op = "enter"
    /\ reply.res = "entered"
    /\ \E m \in 1..Len(info) : Entrants(info[m].entries) = {1, 2}

\* ------------------------------------------- what giveaways.json may hold
\* an end_time that datetime.fromisoformat rejects
Unparsable == [iso |-> FALSE, aware |-> FALSE, ts |-> 0]

\* an ISO end_time without a UTC offset
NaiveStamp(t) == [iso |-> TRUE, aware |-> FALSE, ts |-> t]

\* a record of the file that lacks a key
WithoutKey(giveaway_info, key) ==
    [k \in DOMAIN giveaway_info \ {key} |-> giveaway_info[k]]

\* the records of guild g a file may hold: as the giveaway command writes
\* them, or with an end_time or a key it never writes
FileRecords(g) ==
    {LoadedRecord(g, 1, t, <<>>) : t \in Times}
    \cup {[LoadedRecord(g, 1, 0, <<>>) EXCEPT !.end_time = e] :
             e \in {Unparsable, NaiveStamp(0), None}}
    \cup {WithoutKey(LoadedRecord(g, 1, 0, <<>>), key) :
             key \in {"end_time", "prize"}}

\* --------------------------------------------------- the loop keeps going
NextLoop ==
    \/ check_giveaways
    \/ SweepResume
    \/ giveaway
    \/ GiveawayPosted
    \/ Tick

\* giveaways.json holds no record or one; Discord may refuse any call
InitLoop ==
    Start({{"http"}}, {{1}}, {<<>>} \cup {<<r>> : r \in FileRecords(1)})

SpecLoop == InitLoop /\ [][NextLoop]_vars

\* C21: nothing a stored record holds and no failure of a completion makes
\* the check_giveaways loop stop
C21_LoopNeverStops == sweep.pc # "stopped"

\* ------------------------------------------------- entries without repeats
\* create, enter, end, sweep and guild-leave, while the clock stands
NextOps ==
    \/ giveaway
    \/ GiveawayPosted
    \/ enter
    \/ giveaway_end
    \/ EndDeferred
    \/ EndResume
    \/ check_giveaways
    \/ SweepResume
    \/ on_guild_remove

\* one guild; giveaways.json is empty or holds a giveaway the bot created
\* whose deadline has passed
InitOps == Start({{}}, {{1}}, {<<>>, <<LoadedRecord(1, 1, 0, <<>>)>>})

SpecOps == InitOps /\ [][NextOps]_vars

Delivers(m) == Announced(m)' # Announced(m)

\* C23: a giveaway is out of the registry before its result announcement
\* is delivered: the send that delivers it was made by an invocation that
\* had removed the record
C23_RemovedBeforeAnnounced ==
    [][\A m \in 1..Len(info) :
          Delivers(m) => ~StoredAnywhere(giveaways_data, m)]_vars

\* -------------------------------------------- saved at every suspension
\* C24: while the writes succeed, whenever a handler or the sweep is
\* suspended or has ended, giveaways.json reads back as the registry in
\* memory
C24_SavedAtEveryYield ==
    /\ disk.readable
    /\ InSync

\* C24 happens: a giveaway was created and stored after another was
\* concluded and removed, and the file holds the registry
C24_Witness ==
    /\ reply = Response("giveaway", "started")
    /\ \E m \in 1..Len(info) : sent[m] # <<>> /\ ~Persisted(disk, m)
    /\ Persisted(disk, Len(info))

\* ---------------------------------------------------------- restart recovery
NextRestart ==
    \/ check_giveaways
    \/ SweepResume
    \/ restart
    \/ Tick

\* giveaways.json holds the giveaway an earlier /giveaway stored and saved
InitRestart == Start({{}}, {Guilds}, OneRecordFiles)

\* tasks.loop(minutes=1) starts a tick whenever the last one is over, and
\* every awaited call of the sweep returns or raises
SpecRestart ==
    /\ InitRestart
    /\ [][NextRestart]_vars
    /\ WF_vars(check_giveaways)
    /\ WF_vars(SweepResume)

\* the process has just started again
Restarted == reply.op = "on_ready"

\* giveaway m is stored and saved, and no completion of it has announced
Pending(m) ==
    /\ m \in 1..Len(info)
    /\ StoredAnywhere(giveaways_data, m)
    /\ Persisted(disk, m)
    /\ sent[m] = <<>>

\* C25: a restart leaves every giveaway that was stored, saved and not
\* concluded in the registry with its prize, winner_count, end_time and
\* entries, and after the restart a giveaway whose deadline has elapsed is
\* eventually completed by the sweep and out of the registry
C25_RestartRecovery ==
    /\ [][Restarted' =>
             \A m \in Ids :
                Pending(m) => /\ StoredAnywhere(giveaways_data', m)
                              /\ info'[m] = info[m]]_vars
    /\ \A m \in Ids :
          (Restarted /\ Elapsed(m)) ~> ~StoredAnywhere(giveaways_data, m)

\* --------------------------------------------------- the scan and the guilds
\* C26: the scan of a tick covers every guild of the registry: each guild
\* key that held a giveaway with end_time <= current_time when the tick
\* started is among the guilds the tick went through, in bot.guilds or not
C26_ScanCoversRegistry ==
    [][TickEnds => \A p \in TickStart : p[1] \in TickOver]_vars

\* ------------------------------------------------------- what a reroll does
\* giveaways.json holds no record or one, with no entrant, one or two; the
\* platform answers every call or may refuse the send of the announcement
RerollFiles ==
    OneRecordFiles \cup {<<LoadedRecord(g, 1, t, <<2>>)>> : g \in Guilds, t \in 0..1}

InitAnnounce == Start({{}, {"http"}}, {Guilds}, RerollFiles)

SpecAnnounce == InitAnnounce /\ [][NextReroll]_vars

\* this step is a reroll of the stored giveaway m
Rerolls(m) ==
    /\ StoredAnywhere(giveaways_data, m)
    /\ reply' # reply
    /\ reply'.op = "giveaway_reroll"
    /\ reply'.key = Str(m)

\* the reroll of this step left the registry, its records and giveaways.json
\* as they were
RerollFrame ==
    (reply' # reply /\ reply'.op = "giveaway_reroll")
        => UNCHANGED <<giveaways_data, info, disk, sent>>

\* C27 as stated: a reroll of a stored giveaway with no entries reports that
\* and announces nothing, a reroll of a stored giveaway with entries
\* announces one participant taken from its entries, and no reroll changes
\* the registry or giveaways.json
C27_RerollAnnounces ==
    [][/\ RerollFrame
       /\ \A m \in Ids :
             Rerolls(m) =>
                IF info[m].entries = <<>>
                THEN reply'.res = "no entries" /\ reply'.user = 0
                ELSE /\ reply'.res = "rerolled"
                     /\ reply'.user \in Entrants(info[m].entries)]_vars

\* C27 amended: the participant named is taken from entries and is announced
\* when channel.send succeeds; when the platform refuses the send the
\* handler raises and nothing is announced
C27_RerollEffect ==
    [][/\ RerollFrame
       /\ \A m \in Ids :
             Rerolls(m) =>
                IF info[m].entries = <<>>
                THEN reply'.res = "no entries" /\ reply'.user = 0
                ELSE /\ reply'.user \in Entrants(info[m].entries)
                     /\ \/ reply'.res = "rerolled"
                        \/ "http" \in world /\ reply'.res \in {"NotFound", "Forbidden"}]_vars

\* C27 happens: a reroll announced an entrant of a stored giveaway that
\* another user did not enter
C27_Witness ==
    /\ reply.op = "giveaway_reroll"
    /\ reply.res = "rerolled"
    /\ StoredAnywhere(giveaways_data, reply.key[1])
    /\ info[reply.key[1]].entries = <<2>>
    /\ reply.user = 2

\* ------------------------------------------------- entering after the draw
\* a completion of m is past its winner selection: its frame waits on the
\* edit or on the send, or it has returned
Selected(m) ==
    \/ sweep.f.m = m /\ sweep.f.pc \in {"edit", "send"}
    \/ ender.f.m = m /\ ender.f.pc \in {"edit", "send"}
    \/ sent[m] # <<>>

\* C28: once the winners of a giveaway are selected no press of its button
\* answers entered or adds to its entries, so everyone told entered is in
\* the list the winners were drawn from
C28_NoEntryAfterSelection ==
    [][\A m \in 1..Len(info) :
          Selected(m) =>
             /\ info'[m].entries = info[m].entries
             /\ ~(/\ reply'.op = "enter"
                  /\ reply'.key = Str(m)
                  /\ reply'.res = "entered")]_vars

\* C28 happens: the button of a giveaway was pressed while the completion
\* ended by the command waits between its selection and its removal
C28_Witness ==
    /\ reply.op = "enter"
    /\ ender.f.m = reply.key[1]
    /\ ender.f.pc \in {"edit", "send"}
    /\ StoredAnywhere(giveaways_data, reply.key[1])

\* ------------------------------------------------- end_time out of shape
\* the record is stored and its end_time is missing or is no ISO-8601 string
Malformed(m) ==
    /\ StoredAnywhere(giveaways_data, m)
    /\ \/ "end_time" \notin DOMAIN info[m]
       \/ fromisoformat(info[m].end_time).err # "none"

\* the tick has the record in its expired_giveaways and is completing it or
\* will complete it next
Listed(sw, m) ==
    /\ sw.pc = "egl"
    /\ sw.f.m = m \/ \E i \in 1..Len(sw.expired) : sw.expired[i] = m

\* C29: a tick that starts while a giveaway of an iterated guild is stored
\* with an end_time that is missing or cannot be parsed lists the giveaway
\* as expired and hands it to completion, and when the tick ends the
\* giveaway is out of the registry
C29_MalformedExpires ==
    [][/\ \A m \in 1..Len(info) :
             (Malformed(m) /\ sweep.pc = "idle" /\ check_giveaways)
                => Listed(sweep', m)
       /\ TickEnds => \A m \in 1..Len(info) : ~Malformed(m)']_vars

\* ---------------------------------------------------------- guild isolation
NextIsolated ==
    \/ giveaway
    \/ GiveawayPosted
    \/ enter
    \/ giveaway_end
    \/ EndDeferred
    \/ EndResume
    \/ giveaway_reroll

\* the bot is in every guild; giveaways.json holds no record, or one of
\* guild 1 with an entrant
InitIsolated == Start({{}}, {Guilds}, {<<>>, <<LoadedRecord(1, 1, 1, <<1>>)>>})

SpecIsolated == InitIsolated /\ [][NextIsolated]_vars

\* the reply says the operation worked on the giveaway it names
Worked ==
    \/ reply.op = "enter" /\ reply.res \in {"entered", "already entered"}
    \/ reply.op = "giveaway_reroll" /\ reply.res # "not found"

\* C30: an enter or a reroll that works on a giveaway was invoked from the
\* guild the giveaway is stored under, and the completion the end command
\* starts is of a giveaway stored under the guild of the command
C30_GuildIsolation ==
    [][/\ Worked' => Stored(giveaways_data, reply'.guild, reply'.key[1])
       /\ (ender.pc = "defer" /\ ender'.pc = "egl")
             => Stored(giveaways_data, ender'.guild, ender'.f.m)]_vars

====
